---- MODULE Spec2Model ----
\* A model of bubble_plot.py: the aggregation of entries into a BubblePlot
\* (Occurrence, SplitXAxis, BubblePlot, compute_occurences_from) and the
\* CSVWriter that indexes the labels and years and prepares the table, the
\* LatexBubblePlotWriter that reads the table back and fills the template,
\* and the loop of build_and_save_plots over the plot plans.
\*
\* Python values are modelled as follows.
\*   str        a sequence of character codes; the digits 0..9 stand for the
\*              characters '0'..'9', so "2018" is <<2, 0, 1, 8>>.  Comparison is
\*              Python's lexicographic order (StrLess), never numeric order.
\*   field name a TLA+ string ("Y", "X_left", "X_right", "year"); only equality
\*              is ever used on field names.
\*   dict       a sequence of [k |-> key, v |-> value] items with distinct keys,
\*              in insertion order (Python dicts keep insertion order).
\*   entry      a function from the field names it holds to str.
EXTENDS Integers, Sequences, FiniteSets

VARIABLES
    entries,    \* the entries the loop of compute_occurences_from has taken so far
    plot,       \* the BubblePlot: [x_axis |-> [left, right], y_axis]
    years,      \* the set `years` of compute_occurences_from / CSVWriter.years
    conf,       \* the Config (the fields the model reads)
    raised,     \* the exception raised by the last operation, or NoError
    pc,         \* position in build_and_save_plots (or of the user of the classes)
    x_left_mapping, x_right_mapping, y_mapping, \* locals of CSVWriter.save_plot
    year_score,
    bubbles_data,
    sorted_bubbles_data,
    opened,     \* the open() calls made so far, in order
    csv_file,   \* the rows written to the plot's .csv file (header excluded)
    input,      \* the `entries` argument of build_and_save_plots
    plot_plans, \* the `plot_plans` argument of build_and_save_plots
    plan_no,    \* the 1-based position in plot_plans of the plan being processed
    files,      \* the files of output_dir: name -> [content, plan_no of the writer]
    x_indices   \* LatexBubblePlotWriter.x_indices

vars == <<entries, plot, years, conf, raised, pc, x_left_mapping,
          x_right_mapping, y_mapping, year_score, bubbles_data,
          sorted_bubbles_data, opened, csv_file, input, plot_plans, plan_no,
          files, x_indices>>

\* The arguments of build_and_save_plots, the files and the Template Filler.
build_vars == <<input, plot_plans, plan_no, files, x_indices>>

writer_vars == <<x_left_mapping, x_right_mapping, y_mapping, year_score,
                 bubbles_data, sorted_bubbles_data, opened, csv_file>>

--------------------------------------------------------------------------
\* Bounds and input domains.

\* Longest list of entries given to compute_occurences_from.
MaxEntries == 3

\* Most calls of BubblePlot.update a user of the classes makes in SpecAPI.
MaxCalls == 2

\* The Year Set of SpecYears is drawn from "2010" .. "201<MaxYearDigit>".
MaxYearDigit == 6

YearDomain == {<<2, 0, 1, d>> : d \in 0..MaxYearDigit}

\* The facets of the plot plan, Facets(y, x_left, x_right), as in the tests.
PlotPlan == [y |-> "Y", x_left |-> "X_left", x_right |-> "X_right"]

\* Labels of the x facets: "10" and "2" (string order "10" < "2").
XLabels == {<<1, 0>>, <<2>>}

\* Labels of the y facet: "0" and "3".
YLabels == {<<0>>, <<3>>}

\* Years of the entries: "2019" and "2020".
EntryYears == {<<2, 0, 1, 9>>, <<2, 0, 2, 0>>}

\* (x_left_offset, x_right_offset) of the Config: the tests' (1, 2), no
\* offset, and a negative left offset (Config.x_left_offset is any int).
OffsetPairs == {<<1, 2>>, <<0, 0>>, <<-1, 0>>}

Confs == {[x_left_offset |-> o[1], x_right_offset |-> o[2], class_year |-> "year"] :
            o \in OffsetPairs}

\* The value sets of the fields of an entry.
FieldValues(f) == IF f = "year" THEN EntryYears
                  ELSE IF f = "Y" THEN YLabels ELSE XLabels

FieldNames == {"Y", "X_left", "X_right", "year"}

\* Every entry over the four fields; an entry may lack any of them.
AllEntries == UNION {[D -> XLabels \cup YLabels \cup EntryYears] : D \in SUBSET FieldNames}

Entries == {e \in AllEntries : \A f \in DOMAIN e : e[f] \in FieldValues(f)}

--------------------------------------------------------------------------
\* Python's str and dict.

\* a < b on str: lexicographic by character, a proper prefix is smaller.
RECURSIVE StrLess(_, _)
StrLess(a, b) ==
    IF a = <<>> THEN b # <<>>
    ELSE IF b = <<>> THEN FALSE
    ELSE IF a[1] # b[1] THEN a[1] < b[1]
    ELSE StrLess(Tail(a), Tail(b))

\* min(a, b): b when b < a, else a.
StrMin(a, b) == IF StrLess(b, a) THEN b ELSE a

\* sorted(S) of a set of str.
RECURSIVE SortedStr(_)
SortedStr(S) ==
    IF S = {} THEN <<>>
    ELSE LET m == CHOOSE x \in S : \A y \in S : x = y \/ StrLess(x, y)
         IN  <<m>> \o SortedStr(S \ {m})

\* list(d.keys()), k in d, d[k] of a dict.
Keys(d) == [i \in 1..Len(d) |-> d[i].k]
KeySet(d) == {d[i].k : i \in 1..Len(d)}
Has(d, key) == key \in KeySet(d)
Get(d, key) == d[CHOOSE i \in 1..Len(d) : d[i].k = key].v

\* d[key] = value: replaces in place, or appends a new item.
Put(d, key, value) ==
    IF Has(d, key)
    THEN [i \in 1..Len(d) |-> IF d[i].k = key THEN [k |-> key, v |-> value] ELSE d[i]]
    ELSE Append(d, [k |-> key, v |-> value])

--------------------------------------------------------------------------
\* Exceptions.

NoError == [exception |-> "", key |-> "", axis |-> ""]

\* KeyError(f"Unknown facet named: {error} on the {axis} axis")
UnknownFacet(name, ax) == [exception |-> "KeyError", key |-> name, axis |-> ax]

\* The bare KeyError of entry[conf.class_year].
MissingKey(name) == [exception |-> "KeyError", key |-> name, axis |-> ""]

\* 1000 // 0
ZeroDivisionError == [exception |-> "ZeroDivisionError", key |-> "", axis |-> ""]

--------------------------------------------------------------------------
\* The Bubble Index.

\* Occurrence(year)
OccurrenceInit(year) == [occurrence |-> 1, year |-> year]

\* Occurrence.update without the increment of the count.
OccurrenceUpdate_NoIncrement(occ, new_year) ==
    [occurrence |-> occ.occurrence, year |-> StrMin(occ.year, new_year)]

\* Occurrence.update storing the latest year given instead of the least.
OccurrenceUpdate_LastYear(occ, new_year) ==
    [occurrence |-> occ.occurrence + 1, year |-> new_year]

\* Occurrence.update(new_year)
OccurrenceUpdate(occ, new_year) ==
    [occurrence |-> occ.occurrence + 1, year |-> StrMin(occ.year, new_year)]

Bubble(label_x, label_y) == [label_x |-> label_x, label_y |-> label_y]

\* SplitXAxis.update looking up the y facet before the x facet.
SplitXAxisUpdate_YFirst(axis, entry, year, y_axis) ==
    IF y_axis \notin DOMAIN entry
    THEN [axis |-> axis, raised |-> UnknownFacet(y_axis, "y")]
    ELSE IF axis.facet \notin DOMAIN entry
    THEN [axis |-> axis, raised |-> UnknownFacet(axis.facet, "x")]
    ELSE LET bubble == Bubble(entry[axis.facet], entry[y_axis])
         IN  [axis |-> [axis EXCEPT !.bubbles =
                          IF Has(axis.bubbles, bubble)
                          THEN Put(axis.bubbles, bubble,
                                   OccurrenceUpdate(Get(axis.bubbles, bubble), year))
                          ELSE Put(axis.bubbles, bubble, OccurrenceInit(year))],
              raised |-> NoError]

\* SplitXAxis.update(entry, year, y_axis): the axis afterwards and the
\* exception raised, if any.
SplitXAxisUpdate(axis, entry, year, y_axis) ==
    IF axis.facet \notin DOMAIN entry
    THEN [axis |-> axis, raised |-> UnknownFacet(axis.facet, "x")]
    ELSE IF y_axis \notin DOMAIN entry
    THEN [axis |-> axis, raised |-> UnknownFacet(y_axis, "y")]
    ELSE LET bubble == Bubble(entry[axis.facet], entry[y_axis])
         IN  [axis |-> [axis EXCEPT !.bubbles =
                          IF Has(axis.bubbles, bubble)
                          THEN Put(axis.bubbles, bubble,
                                   OccurrenceUpdate(Get(axis.bubbles, bubble), year))
                          ELSE Put(axis.bubbles, bubble, OccurrenceInit(year))],
              raised |-> NoError]

\* BubblePlot(facets)
BubblePlotInit(facets) ==
    [x_axis |-> [left  |-> [facet |-> facets.x_left, bubbles |-> <<>>],
                 right |-> [facet |-> facets.x_right, bubbles |-> <<>>]],
     y_axis |-> facets.y]

\* BubblePlot.update looking up the facets of both sides before changing
\* either side.
BubblePlotUpdate_Atomic(p, entry, year) ==
    LET l == SplitXAxisUpdate(p.x_axis.left, entry, year, p.y_axis)
        r == SplitXAxisUpdate(p.x_axis.right, entry, year, p.y_axis)
    IN  IF l.raised # NoError THEN [plot |-> p, raised |-> l.raised]
        ELSE IF r.raised # NoError THEN [plot |-> p, raised |-> r.raised]
        ELSE [plot |-> [p EXCEPT !.x_axis.left = l.axis, !.x_axis.right = r.axis],
              raised |-> NoError]

\* BubblePlot.update(entry, year): left side, then right side; an exception
\* of the left side skips the right side.
BubblePlotUpdate(p, entry, year) ==
    LET l == SplitXAxisUpdate(p.x_axis.left, entry, year, p.y_axis)
    IN  IF l.raised # NoError
        THEN [plot |-> p, raised |-> l.raised]
        ELSE LET r == SplitXAxisUpdate(p.x_axis.right, entry, year, p.y_axis)
             IN  [plot |-> [p EXCEPT !.x_axis.left = l.axis, !.x_axis.right = r.axis],
                  raised |-> r.raised]

\* The loop of compute_occurences_from over es[i..], from the plot, the
\* years and the number of entries taken so far: the plot and the years at
\* the return or at the exception, the exception, and the number of entries
\* taken, the failing one included.
RECURSIVE OccurencesLoop(_, _, _, _)
OccurencesLoop(es, i, acc, c) ==
    IF i > Len(es) THEN acc
    ELSE IF c.class_year \notin DOMAIN es[i]
    THEN [acc EXCEPT !.raised = MissingKey(c.class_year), !.taken = i]
    ELSE LET u == BubblePlotUpdate(acc.plot, es[i], es[i][c.class_year])
         IN  IF u.raised # NoError
             THEN [plot |-> u.plot, years |-> acc.years, raised |-> u.raised, taken |-> i]
             ELSE OccurencesLoop(es, i + 1,
                                 [plot |-> u.plot,
                                  years |-> acc.years \cup {es[i][c.class_year]},
                                  raised |-> NoError, taken |-> i], c)

\* compute_occurences_from(es, plan, c)
compute_occurences_from(es, plan, c) ==
    OccurencesLoop(es, 1, [plot |-> BubblePlotInit(plan), years |-> {},
                           raised |-> NoError, taken |-> 0], c)

--------------------------------------------------------------------------
\* The CSVWriter.

\* a // b of Python on ints, b # 0: the floor of the quotient.
FloorDiv(a, b) == IF b > 0 THEN a \div b ELSE (-a) \div (-b)

\* compute_year_score_mapping dividing by the number of years.
compute_year_score_mapping_DivByLen(w_years) ==
    IF Cardinality(w_years) = 0
    THEN [value |-> <<>>, raised |-> ZeroDivisionError]
    ELSE LET incr == FloorDiv(1000, Cardinality(w_years))
             sorted_years == SortedStr(w_years)
         IN  [value |-> [i \in 1..Len(sorted_years) |->
                            [k |-> sorted_years[i], v |-> 0 + (i - 1) * incr]],
              raised |-> NoError]

\* compute_year_score_mapping with a guard that scores a single year 0.
compute_year_score_mapping_Guarded(w_years) ==
    LET incr == IF Cardinality(w_years) - 1 = 0 THEN 0
                ELSE FloorDiv(1000, Cardinality(w_years) - 1)
        sorted_years == SortedStr(w_years)
    IN  [value |-> [i \in 1..Len(sorted_years) |->
                       [k |-> sorted_years[i], v |-> 0 + (i - 1) * incr]],
         raised |-> NoError]

\* CSVWriter.compute_year_score_mapping(): the mapping and the exception
\* raised, if any.  1000 // (len(years) - 1) raises for one year; for no
\* year it is -1000 and the loop body never runs.  The year at 0-based
\* position i of sorted(years) gets idx = 0 + i * incr.
compute_year_score_mapping(w_years) ==
    IF Cardinality(w_years) - 1 = 0
    THEN [value |-> <<>>, raised |-> ZeroDivisionError]
    ELSE LET incr == FloorDiv(1000, Cardinality(w_years) - 1)
             sorted_years == SortedStr(w_years)
         IN  [value |-> [i \in 1..Len(sorted_years) |->
                            [k |-> sorted_years[i], v |-> 0 + (i - 1) * incr]],
              raised |-> NoError]

\* {b.label_x for b in bubbles} and {b.label_y for b in bubbles}
LabelsX(bubbles) == {bubbles[i].k.label_x : i \in 1..Len(bubbles)}
LabelsY(bubbles) == {bubbles[i].k.label_y : i \in 1..Len(bubbles)}

\* x_left_mapping numbering the labels outwards from the centre.
XLeftMapping_Outwards(p, c) ==
    LET labels_x_left == SortedStr(LabelsX(p.x_axis.left.bubbles))
    IN  [i \in 1..Len(labels_x_left) |->
            [k |-> labels_x_left[i], v |-> -(i + c.x_left_offset)]]

\* x_right_mapping starting at the left offset.
XRightMapping_LeftOffset(p, c) ==
    LET labels_x_right == SortedStr(LabelsX(p.x_axis.right.bubbles))
    IN  [i \in 1..Len(labels_x_right) |->
            [k |-> labels_x_right[i], v |-> (i - 1) + c.x_left_offset]]

\* The x_left_mapping of compute_labels_indices_mapping; enumerate() counts
\* from 0, sequences from 1.
XLeftMapping(p, c) ==
    LET labels_x_left == SortedStr(LabelsX(p.x_axis.left.bubbles))
        labels_x_left_len == Len(labels_x_left)
    IN  [i \in 1..labels_x_left_len |->
            [k |-> labels_x_left[i],
             v |-> -(labels_x_left_len - (i - 1) + c.x_left_offset)]]

\* The x_right_mapping of compute_labels_indices_mapping.
XRightMapping(p, c) ==
    LET labels_x_right == SortedStr(LabelsX(p.x_axis.right.bubbles))
    IN  [i \in 1..Len(labels_x_right) |->
            [k |-> labels_x_right[i], v |-> (i - 1) + c.x_right_offset]]

\* y_mapping from the y labels of the right side alone.
YMapping_RightOnly(p) ==
    LET labels_y == SortedStr(LabelsY(p.x_axis.right.bubbles))
    IN  [i \in 1..Len(labels_y) |-> [k |-> labels_y[i], v |-> i - 1]]

\* The y_mapping of compute_labels_indices_mapping.
YMapping(p) ==
    LET labels_y == SortedStr(LabelsY(p.x_axis.right.bubbles \o p.x_axis.left.bubbles))
    IN  [i \in 1..Len(labels_y) |-> [k |-> labels_y[i], v |-> i - 1]]

\* CSVWriter.compute_labels_indices_mapping()
compute_labels_indices_mapping(p, c) ==
    [x_left |-> XLeftMapping(p, c), x_right |-> XRightMapping(p, c), y |-> YMapping(p)]

\* The rows of one side in prepared_bubbles_data, in the order of
\* axis.bubbles.items().  (Every key looked up is in its mapping when the
\* mappings are those save_plot computed from the same plot and years.)
AxisRows(axis, x_mapping, y_map, year_mapping) ==
    [i \in 1..Len(axis.bubbles) |->
        <<Get(y_map, axis.bubbles[i].k.label_y),
          Get(x_mapping, axis.bubbles[i].k.label_x),
          axis.bubbles[i].v.occurrence,
          Get(year_mapping, axis.bubbles[i].v.year)>>]

\* prepared_bubbles_data going through the left side only.
prepared_bubbles_data_LeftOnly(p, xl_map, xr_map, y_map, year_mapping) ==
    AxisRows(p.x_axis.left, xl_map, y_map, year_mapping)

\* prepared_bubbles_data going through the right side first.
prepared_bubbles_data_RightFirst(p, xl_map, xr_map, y_map, year_mapping) ==
    AxisRows(p.x_axis.right, xr_map, y_map, year_mapping)
        \o AxisRows(p.x_axis.left, xl_map, y_map, year_mapping)

\* CSVWriter.prepared_bubbles_data(x_left_mapping, x_right_mapping, y_mapping, year_mapping)
prepared_bubbles_data(p, xl_map, xr_map, y_map, year_mapping) ==
    AxisRows(p.x_axis.left, xl_map, y_map, year_mapping)
        \o AxisRows(p.x_axis.right, xr_map, y_map, year_mapping)

\* Insertion of a row behind every row whose key t[1] (the x index; t[2]
\* here, sequences being 1-based) is not greater.
RECURSIVE InsertByX(_, _)
InsertByX(sorted, row) ==
    IF sorted = <<>> THEN <<row>>
    ELSE IF sorted[Len(sorted)][2] <= row[2] THEN Append(sorted, row)
    ELSE Append(InsertByX(SubSeq(sorted, 1, Len(sorted) - 1), row), sorted[Len(sorted)])

\* An unstable sort by x index: a row goes before the rows of equal key.
RECURSIVE InsertBeforeEqual(_, _)
InsertBeforeEqual(sorted, row) ==
    IF sorted = <<>> THEN <<row>>
    ELSE IF sorted[Len(sorted)][2] < row[2] THEN Append(sorted, row)
    ELSE Append(InsertBeforeEqual(SubSeq(sorted, 1, Len(sorted) - 1), row),
                sorted[Len(sorted)])

RECURSIVE SortedByX_Unstable(_)
SortedByX_Unstable(data) ==
    IF data = <<>> THEN <<>>
    ELSE InsertBeforeEqual(SortedByX_Unstable(SubSeq(data, 1, Len(data) - 1)),
                           data[Len(data)])

\* sorted(data, key=lambda t: t[1]): Python's sort is stable.
RECURSIVE SortedByX(_)
SortedByX(data) ==
    IF data = <<>> THEN <<>>
    ELSE InsertByX(SortedByX(SubSeq(data, 1, Len(data) - 1)), data[Len(data)])

\* The cell csv.writer writes for the None that zip_longest pads with.
Blank == <<>>

Max(a, b) == IF a >= b THEN a ELSE b

\* The rows zip_longest(y_indices, x_indices, occurences, year_scores,
\* labels_y, labels_x) yields in CSVWriter.write.
ZipLongest(data, labels_y, labels_x) ==
    [i \in 1..Max(Len(data), Max(Len(labels_y), Len(labels_x))) |->
        <<IF i <= Len(data) THEN data[i][1] ELSE Blank,
          IF i <= Len(data) THEN data[i][2] ELSE Blank,
          IF i <= Len(data) THEN data[i][3] ELSE Blank,
          IF i <= Len(data) THEN data[i][4] ELSE Blank,
          IF i <= Len(labels_y) THEN labels_y[i] ELSE Blank,
          IF i <= Len(labels_x) THEN labels_x[i] ELSE Blank>>]

\* conf.field_names of the tests.
field_names == <<"iy", "ix", "nbr", "year", "y", "x">>

\* The character '-' of a str; the digits '0'..'9' are 0..9.
Minus == 45

\* str(n) of a non-negative int
RECURSIVE NatToStr(_)
NatToStr(n) == IF n < 10 THEN <<n>> ELSE NatToStr(n \div 10) \o <<n % 10>>

\* str(n) of an int, which csv.writer writes for an int cell.
IntToStr(n) == IF n < 0 THEN <<Minus>> \o NatToStr(-n) ELSE NatToStr(n)

\* ValueError: of int() on a str that is no numeral, of min() on an empty
\* sequence, of Template.substitute on a bad placeholder.
ValueError == [exception |-> "ValueError", key |-> "", axis |-> ""]

IsDigits(s) == s # <<>> /\ \A i \in 1..Len(s) : s[i] \in 0..9

RECURSIVE DigitsToNat(_)
DigitsToNat(s) ==
    IF s = <<>> THEN 0
    ELSE 10 * DigitsToNat(SubSeq(s, 1, Len(s) - 1)) + s[Len(s)]

\* int(s) of a str of digits and '-': the value, or the ValueError that the
\* empty str and every other str that is no numeral raise.
StrToInt(s) ==
    IF IsDigits(s) THEN [value |-> DigitsToNat(s), raised |-> NoError]
    ELSE IF Len(s) > 1 /\ s[1] = Minus /\ IsDigits(Tail(s))
    THEN [value |-> 0 - DigitsToNat(Tail(s)), raised |-> NoError]
    ELSE [value |-> 0, raised |-> ValueError]

\* The text of the .csv file that CSVWriter.write writes: the header row of
\* conf.field_names, then the rows of zip_longest, csv.writer writing
\* str(value) for an int, the str itself for a label and the empty str for
\* the None of the padding.
CsvText(data, labels_y, labels_x) ==
    [header |-> field_names,
     rows |-> [i \in 1..Max(Len(data), Max(Len(labels_y), Len(labels_x))) |->
                 <<IF i <= Len(data) THEN IntToStr(data[i][1]) ELSE <<>>,
                   IF i <= Len(data) THEN IntToStr(data[i][2]) ELSE <<>>,
                   IF i <= Len(data) THEN IntToStr(data[i][3]) ELSE <<>>,
                   IF i <= Len(data) THEN IntToStr(data[i][4]) ELSE <<>>,
                   IF i <= Len(labels_y) THEN labels_y[i] ELSE <<>>,
                   IF i <= Len(labels_x) THEN labels_x[i] ELSE <<>>>>]]

\* row[name] of csv.DictReader: the cell under the last header cell that
\* holds the name.
DictCell(header, row, name) ==
    row[CHOOSE i \in 1..Len(header) :
            /\ header[i] = name
            /\ \A j \in (i + 1)..Len(header) : header[j] # name]

\* tuple(int(row[conf.field_names[1]]) for row in reader): the ints of the
\* x index column, or the ValueError of the first cell that is no numeral.
ReadXIndices(text) ==
    LET cells == [i \in 1..Len(text.rows) |->
                    StrToInt(DictCell(text.header, text.rows[i], field_names[2]))]
    IN  IF \E i \in 1..Len(cells) : cells[i].raised # NoError
        THEN [value |-> <<>>, raised |-> ValueError]
        ELSE [value |-> [i \in 1..Len(cells) |-> cells[i].value], raised |-> NoError]

\* min() and max() of a non-empty sequence of ints
MinOf(xs) == CHOOSE m \in {xs[i] : i \in 1..Len(xs)} : \A i \in 1..Len(xs) : m <= xs[i]
MaxOf(xs) == CHOOSE m \in {xs[i] : i \in 1..Len(xs)} : \A i \in 1..Len(xs) : m >= xs[i]

\* LatexBubblePlotWriter.prepare_values: the values of the template that
\* depend on the plot, or the ValueError of min() when no x index was read.
prepare_values(p, w_years, w_x_indices) ==
    IF w_x_indices = <<>>
    THEN [value |-> <<>>, raised |-> ValueError]
    ELSE [value |-> [xMin |-> IntToStr(MinOf(w_x_indices)),
                     xMax |-> IntToStr(MaxOf(w_x_indices)),
                     yLabel |-> p.y_axis,
                     xLeftLabel |-> p.x_axis.left.facet,
                     xRightLabel |-> p.x_axis.right.facet,
                     colorsYear |-> SortedStr(w_years)],
          raised |-> NoError]

\* The open(path, mode) call.
Open(name, mode) == [file |-> name, mode |-> mode]

\* str(plot): the left x facet, the y facet and the right x facet, joined.
PlotName(p) == <<p.x_axis.left.facet, p.y_axis, p.x_axis.right.facet>>

\* os.path.join(conf.output_dir, f"{plot}.csv") and f"{plot}.tex"
CsvName(p) == <<PlotName(p), "csv">>
TexName(p) == <<PlotName(p), "tex">>

\* conf.latex_template
TemplateName == <<"template", "tex">>

\* The files after open(name, "w") and the writes: the file holds content,
\* whatever it held; no is the plot plan whose processing wrote it.
WriteFile(fs, name, content, no) ==
    [n \in (DOMAIN fs) \cup {name} |->
        IF n = name THEN [content |-> content, plan_no |-> no] ELSE fs[n]]

--------------------------------------------------------------------------
\* The state machine.

Init ==
    /\ entries = <<>>
    /\ plot = BubblePlotInit(PlotPlan)
    /\ years = {}
    /\ conf \in Confs
    /\ raised = NoError
    /\ pc = "aggregate"
    /\ x_left_mapping = <<>>
    /\ x_right_mapping = <<>>
    /\ y_mapping = <<>>
    /\ year_score = <<>>
    /\ bubbles_data = <<>>
    /\ sorted_bubbles_data = <<>>
    /\ opened = <<>>
    /\ csv_file = <<>>
    /\ input = <<>>
    /\ plot_plans = <<PlotPlan>>
    /\ plan_no = 1
    /\ files = <<>>
    /\ x_indices = <<>>

\* An iteration that goes on to the next entry after an exception.
ForEntry_Continue(entry) ==
    /\ pc = "aggregate"
    /\ Len(entries) < MaxEntries
    /\ entries' = Append(entries, entry)
    /\ IF conf.class_year \notin DOMAIN entry
       THEN /\ raised' = MissingKey(conf.class_year)
            /\ UNCHANGED <<plot, years>>
       ELSE LET year == entry[conf.class_year]
                u == BubblePlotUpdate(plot, entry, year)
            IN  /\ plot' = u.plot
                /\ raised' = u.raised
                /\ IF u.raised # NoError
                   THEN UNCHANGED years
                   ELSE years' = years \cup {year}
    /\ pc' = "aggregate"
    /\ UNCHANGED <<conf, writer_vars, build_vars>>

\* One iteration of the loop of compute_occurences_from on the next entry.
ForEntry(entry) ==
    /\ pc = "aggregate"
    /\ Len(entries) < MaxEntries
    /\ entries' = Append(entries, entry)
    /\ IF conf.class_year \notin DOMAIN entry
       THEN /\ raised' = MissingKey(conf.class_year)
            /\ pc' = "raised"
            /\ UNCHANGED <<plot, years>>
       ELSE LET year == entry[conf.class_year]
                u == BubblePlotUpdate(plot, entry, year)
            IN  /\ plot' = u.plot
                /\ raised' = u.raised
                /\ IF u.raised # NoError
                   THEN pc' = "raised" /\ UNCHANGED years
                   ELSE pc' = "aggregate" /\ years' = years \cup {year}
    /\ UNCHANGED <<conf, writer_vars, build_vars>>

Update == \E entry \in Entries : ForEntry(entry)

\* The loop of compute_occurences_from ends: it returns (plot, years) and
\* build_and_save_plots constructs CSVWriter(plot, years, conf).
Return ==
    /\ pc = "aggregate"
    /\ pc' = "csv"
    /\ UNCHANGED <<entries, plot, years, conf, raised, writer_vars, build_vars>>

\* CSVWriter.save_plot() opening the .csv file for writing before the year
\* scores are computed: their exception leaves the file open()ed and empty.
SavePlot_OpenFirst ==
    /\ pc = "csv"
    /\ LET m == compute_labels_indices_mapping(plot, conf)
           ys == compute_year_score_mapping(years)
       IN  /\ x_left_mapping' = m.x_left
           /\ x_right_mapping' = m.x_right
           /\ y_mapping' = m.y
           /\ opened' = Append(opened, Open(CsvName(plot), "w"))
           /\ IF ys.raised # NoError
              THEN /\ raised' = ys.raised
                   /\ pc' = "raised"
                   /\ files' = WriteFile(files, CsvName(plot), <<>>, plan_no)
                   /\ UNCHANGED <<year_score, bubbles_data, sorted_bubbles_data,
                                  csv_file>>
              ELSE LET data == prepared_bubbles_data(plot, m.x_left, m.x_right,
                                                     m.y, ys.value)
                   IN  /\ year_score' = ys.value
                       /\ bubbles_data' = data
                       /\ sorted_bubbles_data' = SortedByX(data)
                       /\ csv_file' = ZipLongest(SortedByX(data), Keys(m.y),
                                                 Keys(m.x_left) \o Keys(m.x_right))
                       /\ files' = WriteFile(files, CsvName(plot),
                                             CsvText(SortedByX(data), Keys(m.y),
                                                     Keys(m.x_left) \o Keys(m.x_right)),
                                             plan_no)
                       /\ raised' = NoError
                       /\ pc' = "latex"
    /\ UNCHANGED <<entries, plot, years, conf, input, plot_plans, plan_no, x_indices>>

\* CSVWriter.save_plot(): the mappings, the year scores, the prepared rows,
\* their sort, and CSVWriter.write.
SavePlot ==
    /\ pc = "csv"
    /\ LET m == compute_labels_indices_mapping(plot, conf)
           ys == compute_year_score_mapping(years)
       IN  /\ x_left_mapping' = m.x_left
           /\ x_right_mapping' = m.x_right
           /\ y_mapping' = m.y
           /\ IF ys.raised # NoError
              THEN /\ raised' = ys.raised
                   /\ pc' = "raised"
                   /\ UNCHANGED <<year_score, bubbles_data, sorted_bubbles_data,
                                  opened, csv_file, files>>
              ELSE LET data == prepared_bubbles_data(plot, m.x_left, m.x_right,
                                                     m.y, ys.value)
                   IN  /\ year_score' = ys.value
                       /\ bubbles_data' = data
                       /\ sorted_bubbles_data' = SortedByX(data)
                       /\ opened' = Append(opened, Open(CsvName(plot), "w"))
                       /\ csv_file' = ZipLongest(SortedByX(data), Keys(m.y),
                                                 Keys(m.x_left) \o Keys(m.x_right))
                       /\ files' = WriteFile(files, CsvName(plot),
                                             CsvText(SortedByX(data), Keys(m.y),
                                                     Keys(m.x_left) \o Keys(m.x_right)),
                                             plan_no)
                       /\ raised' = NoError
                       /\ pc' = "latex"
    /\ UNCHANGED <<entries, plot, years, conf, input, plot_plans, plan_no, x_indices>>

Next == Update \/ Return \/ SavePlot

Spec == Init /\ [][Next]_vars

--------------------------------------------------------------------------
\* compute_occurences_from on a given list of entries: the loop takes the
\* entries of the list in their order and ends after the last one.

\* The next iteration of `for entry in entries`.
TakeEntry ==
    /\ Len(entries) < Len(input)
    /\ ForEntry(input[Len(entries) + 1])

\* The list is exhausted: return (plot, years).
EndOfEntries ==
    /\ Len(entries) = Len(input)
    /\ Return

\* The entries that hold the year and the three facets.
CompleteEntries == {e \in Entries : DOMAIN e = FieldNames}

\* The longest list of entries aggregated in every order.
MaxList == 3

\* The lists of at most n entries of S.
Lists(S, n) == UNION {[1..k -> S] : k \in 0..n}

\* The Config of the tests.
TestConf == [x_left_offset |-> 1, x_right_offset |-> 2, class_year |-> "year"]

InitOrder ==
    /\ input \in Lists(CompleteEntries, MaxList)
    /\ entries = <<>>
    /\ plot = BubblePlotInit(PlotPlan)
    /\ years = {}
    /\ conf = TestConf
    /\ raised = NoError
    /\ pc = "aggregate"
    /\ x_left_mapping = <<>>
    /\ x_right_mapping = <<>>
    /\ y_mapping = <<>>
    /\ year_score = <<>>
    /\ bubbles_data = <<>>
    /\ sorted_bubbles_data = <<>>
    /\ opened = <<>>
    /\ csv_file = <<>>
    /\ plot_plans = <<PlotPlan>>
    /\ plan_no = 1
    /\ files = <<>>
    /\ x_indices = <<>>

NextOrder == TakeEntry \/ EndOfEntries

SpecOrder == InitOrder /\ [][NextOrder]_vars

--------------------------------------------------------------------------
\* build_and_save_plots(entries, plot_plans, conf): for each plot plan,
\* compute_occurences_from, CSVWriter(...).save_plot(),
\* LatexBubblePlotWriter(...) and its save_plot(). An exception of any step
\* leaves the function: nothing more is done.

\* The longest list of entries given to build_and_save_plots.
MaxInput == 2

\* A plan with the same facet on both sides: its plot needs no X_right.
LeftPlan == [y |-> "Y", x_left |-> "X_left", x_right |-> "X_left"]

\* The lists of plot plans: one plan, the same plan twice as in
\* test_build_and_save_plots, and two plans of which an entry can satisfy
\* the first and not the second.
PlotPlanLists == {<<PlotPlan>>, <<PlotPlan, PlotPlan>>, <<LeftPlan, PlotPlan>>,
                  <<PlotPlan, LeftPlan>>}

\* The entries given to build_and_save_plots: any field may be missing,
\* the left x facet has one of two labels, the right x facet and the y
\* facet have one label, the year is one of two.
BuildLabels == [X_left |-> XLabels, X_right |-> {<<2>>}, Y |-> {<<0>>}, year |-> EntryYears]
BuildEntries == {e \in Entries : \A f \in DOMAIN e : e[f] \in BuildLabels[f]}

InitBuild ==
    /\ input \in Lists(BuildEntries, MaxInput)
    /\ plot_plans \in PlotPlanLists
    /\ plan_no = 1
    /\ entries = <<>>
    /\ plot = BubblePlotInit(plot_plans[1])
    /\ years = {}
    /\ conf = TestConf
    /\ raised = NoError
    /\ pc = "aggregate"
    /\ x_left_mapping = <<>>
    /\ x_right_mapping = <<>>
    /\ y_mapping = <<>>
    /\ year_score = <<>>
    /\ bubbles_data = <<>>
    /\ sorted_bubbles_data = <<>>
    /\ opened = <<>>
    /\ csv_file = <<>>
    /\ files = <<>>
    /\ x_indices = <<>>

\* FileNotFoundError of open(path, "r")
FileNotFoundError == [exception |-> "FileNotFoundError", key |-> "", axis |-> ""]

\* LatexBubblePlotWriter(plot, years, conf): opens the plot's .csv file for
\* reading and reads the x indices back.
LatexInit ==
    /\ pc = "latex"
    /\ opened' = Append(opened, Open(CsvName(plot), "r"))
    /\ IF CsvName(plot) \notin DOMAIN files
       THEN /\ raised' = FileNotFoundError
            /\ pc' = "raised"
            /\ UNCHANGED x_indices
       ELSE LET r == ReadXIndices(files[CsvName(plot)].content)
            IN  IF r.raised # NoError
                THEN /\ raised' = r.raised
                     /\ pc' = "raised"
                     /\ UNCHANGED x_indices
                ELSE /\ x_indices' = r.value
                     /\ pc' = "tex"
                     /\ UNCHANGED raised
    /\ UNCHANGED <<entries, plot, years, conf, x_left_mapping, x_right_mapping,
                   y_mapping, year_score, bubbles_data, sorted_bubbles_data,
                   csv_file, input, plot_plans, plan_no, files>>

\* The open() calls of LatexBubblePlotWriter.write, in order, with the
\* .tex file opening first.
WriteOpens_TexFirst(p) == <<Open(TexName(p), "w"), Open(TemplateName, "r")>>

\* The open() calls of LatexBubblePlotWriter.write, in order.
WriteOpens(p) == <<Open(TemplateName, "r"), Open(TexName(p), "w")>>

\* What Template(...).substitute(values) does on the template given: it
\* returns, or raises the KeyError of a placeholder without value or the
\* ValueError of a bad placeholder.
SubstituteOutcomes == {NoError, MissingKey("placeholder"), ValueError}

\* LatexBubblePlotWriter.save_plot(): prepare_values, then write: the
\* template is read and filled, and then the .tex file is written.
LatexSavePlot ==
    /\ pc = "tex"
    /\ LET v == prepare_values(plot, years, x_indices)
       IN  IF v.raised # NoError
           THEN /\ raised' = v.raised
                /\ pc' = "raised"
                /\ UNCHANGED <<opened, files>>
           ELSE \E substituted \in SubstituteOutcomes :
                  IF substituted # NoError
                  THEN /\ opened' = Append(opened, WriteOpens(plot)[1])
                       /\ raised' = substituted
                       /\ pc' = "raised"
                       /\ UNCHANGED files
                  ELSE /\ opened' = opened \o WriteOpens(plot)
                       /\ files' = WriteFile(files, TexName(plot), v.value, plan_no)
                       /\ pc' = "next"
                       /\ UNCHANGED raised
    /\ UNCHANGED <<entries, plot, years, conf, x_left_mapping, x_right_mapping,
                   y_mapping, year_score, bubbles_data, sorted_bubbles_data,
                   csv_file, input, plot_plans, plan_no, x_indices>>

\* The next iteration of `for plot_plan in plot_plans`: the call of
\* compute_occurences_from on the same entries and the next plan begins.
NextPlot ==
    /\ pc = "next"
    /\ plan_no < Len(plot_plans)
    /\ plan_no' = plan_no + 1
    /\ plot' = BubblePlotInit(plot_plans[plan_no + 1])
    /\ entries' = <<>>
    /\ years' = {}
    /\ x_left_mapping' = <<>>
    /\ x_right_mapping' = <<>>
    /\ y_mapping' = <<>>
    /\ year_score' = <<>>
    /\ bubbles_data' = <<>>
    /\ sorted_bubbles_data' = <<>>
    /\ csv_file' = <<>>
    /\ x_indices' = <<>>
    /\ pc' = "aggregate"
    /\ UNCHANGED <<conf, raised, opened, input, plot_plans, files>>

\* The plot plans are exhausted: build_and_save_plots returns.
Finish ==
    /\ pc = "next"
    /\ plan_no = Len(plot_plans)
    /\ pc' = "done"
    /\ UNCHANGED <<entries, plot, years, conf, raised, writer_vars, build_vars>>

NextBuild ==
    TakeEntry \/ EndOfEntries \/ SavePlot \/ LatexInit \/ LatexSavePlot \/ NextPlot \/ Finish

SpecBuild == InitBuild /\ [][NextBuild]_vars

--------------------------------------------------------------------------
\* The year scores alone: a CSVWriter(plot, years, conf) built directly on
\* a Year Set, as the tests build it, and compute_year_score_mapping()
\* called on it.

InitYears ==
    /\ entries = <<>>
    /\ plot = BubblePlotInit(PlotPlan)
    /\ years \in SUBSET YearDomain
    /\ conf \in Confs
    /\ raised = NoError
    /\ pc = "csv"
    /\ x_left_mapping = <<>>
    /\ x_right_mapping = <<>>
    /\ y_mapping = <<>>
    /\ year_score = <<>>
    /\ bubbles_data = <<>>
    /\ sorted_bubbles_data = <<>>
    /\ opened = <<>>
    /\ csv_file = <<>>
    /\ input = <<>>
    /\ plot_plans = <<PlotPlan>>
    /\ plan_no = 1
    /\ files = <<>>
    /\ x_indices = <<>>

YearScore ==
    /\ pc = "csv"
    /\ LET ys == compute_year_score_mapping(years)
       IN  /\ year_score' = ys.value
           /\ raised' = ys.raised
           /\ pc' = IF ys.raised # NoError THEN "raised" ELSE "scored"
    /\ UNCHANGED <<entries, plot, years, conf, x_left_mapping, x_right_mapping,
                   y_mapping, bubbles_data, sorted_bubbles_data, opened, csv_file,
                   build_vars>>

NextYears == YearScore

SpecYears == InitYears /\ [][NextYears]_vars

--------------------------------------------------------------------------
\* The classes used directly, as the tests use them: BubblePlot.update
\* called entry by entry with year = entry[conf.class_year], the caller
\* handling the KeyError of a call and going on (assertRaisesRegex in
\* test_update_unkown_facet), and then CSVWriter(plot, years, conf)
\* .compute_labels_indices_mapping().

InitAPI ==
    /\ entries = <<>>
    /\ plot = BubblePlotInit(PlotPlan)
    /\ years = {}
    /\ conf \in Confs
    /\ raised = NoError
    /\ pc = "api"
    /\ x_left_mapping = <<>>
    /\ x_right_mapping = <<>>
    /\ y_mapping = <<>>
    /\ year_score = <<>>
    /\ bubbles_data = <<>>
    /\ sorted_bubbles_data = <<>>
    /\ opened = <<>>
    /\ csv_file = <<>>
    /\ input = <<>>
    /\ plot_plans = <<PlotPlan>>
    /\ plan_no = 1
    /\ files = <<>>
    /\ x_indices = <<>>

\* plot.update(entry, entry[conf.class_year]), its KeyError handled by the caller.
CallUpdate(entry) ==
    /\ pc = "api"
    /\ Len(entries) < MaxCalls
    /\ conf.class_year \in DOMAIN entry
    /\ LET u == BubblePlotUpdate(plot, entry, entry[conf.class_year])
       IN  /\ plot' = u.plot
           /\ raised' = u.raised
    /\ entries' = Append(entries, entry)
    /\ years' = years \cup {entry[conf.class_year]}
    /\ UNCHANGED <<conf, pc, writer_vars, build_vars>>

UpdateAPI == \E entry \in Entries : CallUpdate(entry)

\* CSVWriter(plot, years, conf).compute_labels_indices_mapping()
LabelsIndices ==
    /\ pc = "api"
    /\ LET m == compute_labels_indices_mapping(plot, conf)
       IN  /\ x_left_mapping' = m.x_left
           /\ x_right_mapping' = m.x_right
           /\ y_mapping' = m.y
    /\ pc' = "mapped"
    /\ UNCHANGED <<entries, plot, years, conf, raised, year_score, bubbles_data,
                   sorted_bubbles_data, opened, csv_file, build_vars>>

\* CSVWriter(plot, years, conf) built on the plot as the calls left it;
\* its save_plot() and LatexBubblePlotWriter(plot, years, conf) follow.
NewWriter ==
    /\ pc = "api"
    /\ pc' = "csv"
    /\ UNCHANGED <<entries, plot, years, conf, raised, writer_vars, build_vars>>

NextAPI == UpdateAPI \/ LabelsIndices \/ NewWriter \/ SavePlot \/ LatexInit

SpecAPI == InitAPI /\ [][NextAPI]_vars

--------------------------------------------------------------------------
\* Notions the properties are stated with, defined without the operators
\* of the model above.

\* Every update so far succeeded (the only exceptions of an update are KeyErrors).
Aggregated == raised.exception # "KeyError"

\* save_plot computed the label mappings (it does so before the year scores).
MappingsComputed == pc \in {"latex", "mapped"} \/ raised = ZeroDivisionError

\* save_plot ran to its end.
Saved == pc = "latex"

Left == plot.x_axis.left
Right == plot.x_axis.right
Sides == {Left, Right}

\* The positions of the entries that map to the pair (x, y) on the side of facet f.
Contributors(f, x, y) ==
    {i \in 1..Len(entries) :
        /\ {f, plot.y_axis} \subseteq DOMAIN entries[i]
        /\ entries[i][f] = x
        /\ entries[i][plot.y_axis] = y}

\* The 0-based rank of s in the ascending string order of S.
Rank(s, S) == Cardinality({t \in S : StrLess(t, s)})

\* The keys of a dict are pairwise distinct.
DistinctKeys(d) == \A i, j \in 1..Len(d) : d[i].k = d[j].k => i = j

--------------------------------------------------------------------------
\* C1: after successful updates only, on each side every Bubble of the
\* mapping is there once and its occurrence count is the number of entries
\* taken whose (x facet of that side, y facet) values are that pair; a pair
\* no entry produced is absent; the sides count separately.
C1_OccurrenceCounts ==
    Aggregated =>
        \A side \in Sides :
            /\ DistinctKeys(side.bubbles)
            /\ \A i \in 1..Len(side.bubbles) :
                 side.bubbles[i].v.occurrence =
                    Cardinality(Contributors(side.facet, side.bubbles[i].k.label_x,
                                             side.bubbles[i].k.label_y))
            /\ \A x \in XLabels, y \in YLabels :
                 Contributors(side.facet, x, y) = {} => ~Has(side.bubbles, Bubble(x, y))

\* A pair counted twice on the left and once on the right, after three updates.
C1_Witness ==
    /\ Aggregated
    /\ Len(entries) = 3
    /\ \E x \in XLabels, y \in YLabels :
         /\ Has(Left.bubbles, Bubble(x, y))
         /\ Has(Right.bubbles, Bubble(x, y))
         /\ Get(Left.bubbles, Bubble(x, y)).occurrence = 2
         /\ Get(Right.bubbles, Bubble(x, y)).occurrence = 1

\* C2 (state part): after successful updates only, the year stored for a
\* Bubble is the least, in string order, of the years of the entries that
\* map to it on that side.
C2_EarliestYearIsMin ==
    Aggregated =>
        \A side \in Sides : \A i \in 1..Len(side.bubbles) :
            LET b == side.bubbles[i].k
                from == {entries[j][conf.class_year] :
                            j \in Contributors(side.facet, b.label_x, b.label_y)}
            IN  /\ side.bubbles[i].v.year \in from
                /\ \A y \in from : ~StrLess(y, side.bubbles[i].v.year)

\* C2 (step part): a successful update whose year is later than the year
\* stored for its Bubble adds one to the count and keeps the stored year.
C2_LaterYearStep ==
    (/\ Len(entries') = Len(entries) + 1
     /\ raised' = NoError)
    => LET e == entries'[Len(entries')]
       IN  \A s \in {"left", "right"} :
              LET old == plot.x_axis[s]
                  new == plot'.x_axis[s]
                  b == Bubble(e[old.facet], e[plot.y_axis])
              IN  (/\ Has(old.bubbles, b)
                   /\ StrLess(Get(old.bubbles, b).year, e[conf.class_year]))
                  => /\ Get(new.bubbles, b).occurrence = Get(old.bubbles, b).occurrence + 1
                     /\ Get(new.bubbles, b).year = Get(old.bubbles, b).year

\* C2: the earliest year of every Bubble is the minimum of the years of its
\* entries, and an update with a later year only increments the count.
C2_EarliestYear == [](C2_EarliestYearIsMin) /\ [][C2_LaterYearStep]_vars

\* A Bubble first seen in "2020", then in "2019", then in "2020" again.
C2_Witness ==
    /\ Aggregated
    /\ Len(entries) = 3
    /\ entries[1].year = <<2, 0, 2, 0>>
    /\ entries[2].year = <<2, 0, 1, 9>>
    /\ entries[3].year = <<2, 0, 2, 0>>
    /\ Len(Left.bubbles) = 1
    /\ Left.bubbles[1].v = [occurrence |-> 3, year |-> <<2, 0, 1, 9>>]

--------------------------------------------------------------------------
\* compute_year_score_mapping() was called and returned / raised.
Scored == pc = "scored"
ScoreRaised == pc = "raised"

\* floor(1000 / (N - 1)) for N >= 2 years.
Step(N) == 1000 \div (N - 1)

\* C3: for a Year Set of N >= 2 years the mapping returned has the years as
\* its keys and gives the year of rank i the score i * floor(1000 / (N-1));
\* the smallest year scores 0, the largest (N-1) * floor(1000 / (N-1)), and
\* every score lies in 0..1000.
C3_YearScores ==
    (Scored /\ Cardinality(years) >= 2) =>
        LET N == Cardinality(years)
        IN  /\ DistinctKeys(year_score)
            /\ KeySet(year_score) = years
            /\ \A y \in years :
                 /\ Get(year_score, y) = Rank(y, years) * Step(N)
                 /\ Get(year_score, y) \in 0..1000
                 /\ (\A z \in years : ~StrLess(z, y)) => Get(year_score, y) = 0
                 /\ (\A z \in years : ~StrLess(y, z)) =>
                        Get(year_score, y) = (N - 1) * Step(N)

\* Four years: the scores are 0, 333, 666, 999.
C3_Witness ==
    /\ Scored
    /\ Cardinality(years) = 4
    /\ {year_score[i].v : i \in 1..Len(year_score)} = {0, 333, 666, 999}

\* C8 as claimed: with fewer than two years (one or none), a call of
\* compute_year_score_mapping raises instead of returning a mapping.
C8_Original ==
    (pc # "csv" /\ Cardinality(years) < 2) =>
        (ScoreRaised /\ raised = ZeroDivisionError)

\* C8 as amended: with exactly one year the call raises (the division by
\* zero) and returns no mapping; with no year it returns the empty
\* mapping; with two or more it raises nothing.
C8_Amended ==
    pc # "csv" =>
        /\ Cardinality(years) = 1 => (ScoreRaised /\ raised = ZeroDivisionError)
        /\ Cardinality(years) = 0 =>
              (Scored /\ raised = NoError /\ year_score = <<>>)
        /\ Cardinality(years) >= 2 => (Scored /\ raised = NoError)

\* The call on a Year Set of one year has raised.
C8_Witness ==
    /\ Cardinality(years) = 1
    /\ ScoreRaised
    /\ raised = ZeroDivisionError

--------------------------------------------------------------------------
\* The distinct x labels of the Bubbles of a side, and the y labels of both.
XLabelsOf(side) == {side.bubbles[i].k.label_x : i \in 1..Len(side.bubbles)}
YLabelsOf(side) == {side.bubbles[i].k.label_y : i \in 1..Len(side.bubbles)}

\* The values of a dict.
Values(d) == {d[i].v : i \in 1..Len(d)}

--------------------------------------------------------------------------
\* C6: the keys of y_mapping are exactly the y labels of the Bubbles of
\* the two sides together, and the label of rank i has the value i, so the
\* values are 0..N-1, each once.
C6_YPositions ==
    MappingsComputed =>
        LET Y == YLabelsOf(Left) \cup YLabelsOf(Right)
            N == Cardinality(Y)
        IN  /\ DistinctKeys(y_mapping)
            /\ KeySet(y_mapping) = Y
            /\ \A l \in Y : Get(y_mapping, l) = Rank(l, Y)
            /\ Values(y_mapping) = 0..(N - 1)
            /\ Len(y_mapping) = N

\* The y label "0" is on the left only (its entry lacked the right x
\* facet), "3" on both sides: y_mapping is {"0": 0, "3": 1}.
C6_Witness ==
    /\ pc = "mapped"
    /\ YLabelsOf(Left) = {<<0>>, <<3>>}
    /\ YLabelsOf(Right) = {<<3>>}
    /\ y_mapping = <<[k |-> <<0>>, v |-> 0], [k |-> <<3>>, v |-> 1]>>

--------------------------------------------------------------------------
\* C7 (one step): when an entry that has the year field is taken,
\*   - if it lacks the left x facet, the left side raises the KeyError
\*     naming that facet and the x axis, whether or not the y facet is there;
\*   - if it has the left x facet and lacks the y facet, the left side
\*     raises the KeyError naming the y facet and the y axis;
\*   - if it has both and lacks the right x facet, the right side raises
\*     the KeyError naming that facet and the x axis;
\*   - the mapping of the side that raised is as it was;
\*   - an entry with the three facets raises nothing.
C7_Step ==
    (/\ Len(entries') = Len(entries) + 1
     /\ conf.class_year \in DOMAIN entries'[Len(entries')])
    => LET e == entries'[Len(entries')]
           hasXL == Left.facet \in DOMAIN e
           hasXR == Right.facet \in DOMAIN e
           hasY == plot.y_axis \in DOMAIN e
       IN  /\ ~hasXL =>
                /\ raised' = [exception |-> "KeyError", key |-> Left.facet, axis |-> "x"]
                /\ plot'.x_axis.left = Left
           /\ (hasXL /\ ~hasY) =>
                /\ raised' = [exception |-> "KeyError", key |-> plot.y_axis, axis |-> "y"]
                /\ plot'.x_axis.left = Left
           /\ (hasXL /\ hasY /\ ~hasXR) =>
                /\ raised' = [exception |-> "KeyError", key |-> Right.facet, axis |-> "x"]
                /\ plot'.x_axis.right = Right
           /\ (hasXL /\ hasY /\ hasXR) => raised' = NoError

\* C7: a SplitXAxis.update that lacks its x facet fails naming it and the
\* x axis, one that has it and lacks the y facet fails naming the y facet
\* and the y axis, and the failing side's mapping is left unchanged.
C7_MissingFacet == [][C7_Step]_vars

\* After two entries, a third with the left x facet and without the y
\* facet raised the y axis error.
C7_Witness ==
    /\ Len(entries) = 3
    /\ Len(Left.bubbles) = 2
    /\ Left.facet \in DOMAIN entries[3]
    /\ plot.y_axis \notin DOMAIN entries[3]
    /\ raised = [exception |-> "KeyError", key |-> "Y", axis |-> "y"]

--------------------------------------------------------------------------
\* The row of a Bubble: the position of its y label, the position of its
\* x label in the mapping of its side, its count, the score of its year.
RowOf(item, x_mapping) ==
    <<Get(y_mapping, item.k.label_y), Get(x_mapping, item.k.label_x),
      item.v.occurrence, Get(year_score, item.v.year)>>

\* The position of the first entry that maps to the Bubble on the side.
FirstSeen(side, b) ==
    CHOOSE i \in Contributors(side.facet, b.label_x, b.label_y) :
        \A j \in Contributors(side.facet, b.label_x, b.label_y) : i <= j

\* C9: bubbles_data holds one row per Bubble of the left side, in the
\* order the Bubbles were first met, then one row per Bubble of the right
\* side, in that order, each row being the row of its Bubble; so there are
\* as many rows as Bubbles.
C9_PreparedRows ==
    Saved =>
        /\ Len(bubbles_data) = Len(Left.bubbles) + Len(Right.bubbles)
        /\ \A i \in 1..Len(Left.bubbles) :
             bubbles_data[i] = RowOf(Left.bubbles[i], x_left_mapping)
        /\ \A i \in 1..Len(Right.bubbles) :
             bubbles_data[Len(Left.bubbles) + i] = RowOf(Right.bubbles[i], x_right_mapping)
        /\ \A side \in Sides :
             /\ DistinctKeys(side.bubbles)
             /\ \A i, j \in 1..Len(side.bubbles) :
                  i < j => FirstSeen(side, side.bubbles[i].k) < FirstSeen(side, side.bubbles[j].k)

\* Three entries, two Bubbles on the left and three on the right, whose
\* left rows differ from the right rows.
C9_Witness ==
    /\ Saved
    /\ Len(Left.bubbles) = 2
    /\ Len(Right.bubbles) = 3
    /\ Len(bubbles_data) = 5
    /\ bubbles_data[1][3] = 2
    /\ bubbles_data[1][2] # bubbles_data[3][2]

\* The place of row i of data in the stable sort by x index: behind the
\* rows of smaller x index and the earlier rows of equal x index.
StablePlace(data, i) ==
    Cardinality({j \in 1..Len(data) : data[j][2] < data[i][2]})
    + Cardinality({j \in 1..i : data[j][2] = data[i][2]})

\* C10: the rows save_plot hands to write are the prepared rows
\* rearranged, in ascending order of x index, rows of equal x index in
\* their order in the prepared list; they are the numeric cells of the
\* first rows written.
C10_SortedRows ==
    Saved =>
        /\ Len(sorted_bubbles_data) = Len(bubbles_data)
        /\ \A i \in 1..Len(bubbles_data) :
             sorted_bubbles_data[StablePlace(bubbles_data, i)] = bubbles_data[i]
        /\ \A i, j \in 1..Len(sorted_bubbles_data) :
             i < j => sorted_bubbles_data[i][2] <= sorted_bubbles_data[j][2]
        /\ Len(csv_file) >= Len(sorted_bubbles_data)
        /\ \A i \in 1..Len(sorted_bubbles_data) :
             SubSeq(csv_file[i], 1, 4) = sorted_bubbles_data[i]

\* A left row and a different right row of equal x index, in a prepared
\* list that was not in order.
C10_Witness ==
    /\ Saved
    /\ sorted_bubbles_data # bubbles_data
    /\ \E i \in 1..Len(Left.bubbles) :
         \E j \in (Len(Left.bubbles) + 1)..Len(bubbles_data) :
            /\ bubbles_data[i][2] = bubbles_data[j][2]
            /\ bubbles_data[i] # bubbles_data[j]

--------------------------------------------------------------------------
\* The mapping of a side after the side took the bubble b with the year:
\* the count of b one more and its year the least, or b created with the
\* count 1 and the year, and every other bubble as it was.
TookBubble(before, after, b, year) ==
    /\ IF Has(before, b)
       THEN /\ KeySet(after) = KeySet(before)
            /\ Get(after, b).occurrence = Get(before, b).occurrence + 1
            /\ Get(after, b).year = StrMin(Get(before, b).year, year)
       ELSE /\ KeySet(after) = KeySet(before) \cup {b}
            /\ Get(after, b) = [occurrence |-> 1, year |-> year]
    /\ \A o \in KeySet(before) \ {b} : Get(after, o) = Get(before, o)

\* C14 (one step): when BubblePlot.update is called with an entry,
\*   - if the entry has the left x facet and the y facet and lacks the right
\*     x facet, the call raises the KeyError naming the right x facet and
\*     the x axis, the left side has taken the entry's bubble and the right
\*     side is as it was;
\*   - if the entry lacks the y facet or the left x facet, the call raises
\*     and neither side is changed.
C14_Step ==
    (/\ Len(entries') = Len(entries) + 1
     /\ conf.class_year \in DOMAIN entries'[Len(entries')])
    => LET e == entries'[Len(entries')]
           hasXL == Left.facet \in DOMAIN e
           hasXR == Right.facet \in DOMAIN e
           hasY == plot.y_axis \in DOMAIN e
       IN  /\ (hasXL /\ hasY /\ ~hasXR) =>
                /\ raised' = UnknownFacet(Right.facet, "x")
                /\ plot'.x_axis.right = Right
                /\ plot'.x_axis.left.facet = Left.facet
                /\ TookBubble(Left.bubbles, plot'.x_axis.left.bubbles,
                              Bubble(e[Left.facet], e[plot.y_axis]), e[conf.class_year])
           /\ (~hasY \/ ~hasXL) =>
                /\ raised' # NoError
                /\ plot' = plot

\* C14: BubblePlot.update is not all-or-nothing: an entry with the left x
\* facet and the y facet and without the right x facet fails with the x axis
\* error after the left side was updated, the right side unchanged; an entry
\* without the y facet or the left x facet changes neither side.
C14_PartialUpdate == [][C14_Step]_vars

\* After a complete entry, a second one with the same labels and without the
\* right x facet raised the x axis error: the left side counts the bubble
\* twice, the right side once.
C14_Witness ==
    /\ Len(entries) = 2
    /\ DOMAIN entries[1] = FieldNames
    /\ DOMAIN entries[2] = FieldNames \ {"X_right"}
    /\ raised = UnknownFacet("X_right", "x")
    /\ Len(Left.bubbles) = 1
    /\ Left.bubbles[1].v.occurrence = 2
    /\ Len(Right.bubbles) = 1
    /\ Right.bubbles[1].v.occurrence = 1

--------------------------------------------------------------------------
\* The permutations of 1..n.
Perms(n) == {f \in [1..n -> 1..n] : \A i, j \in 1..n : f[i] = f[j] => i = j}

\* The list es in the order f.
Permuted(es, f) == [i \in 1..Len(es) |-> es[f[i]]]

\* The contents of a side: its Bubbles, each with its count and earliest year.
Contents(side) == {<<side.bubbles[i].k, side.bubbles[i].v>> : i \in 1..Len(side.bubbles)}

\* Two aggregations hold the same Bubble Index contents.
SameIndex(p, ys, q, zs) ==
    /\ Contents(p.x_axis.left) = Contents(q.x_axis.left)
    /\ Contents(p.x_axis.right) = Contents(q.x_axis.right)
    /\ ys = zs

\* C13: when compute_occurences_from has returned for a list of entries
\* that all hold the year and the three facets, aggregating the list again
\* from scratch, in the same order or in any other order, gives the same
\* Bubbles on each side with the same counts and earliest years, and the
\* same years.
C13_OrderIndependent ==
    (pc = "csv" /\ raised = NoError)
    => \A f \in Perms(Len(entries)) :
         LET again == compute_occurences_from(Permuted(entries, f),
                                              plot_plans[plan_no], conf)
         IN  /\ again.raised = NoError
             /\ SameIndex(again.plot, again.years, plot, years)

\* Three complete entries were aggregated, of one bubble on each side, the
\* years not in increasing order: the orders of the list differ in the year
\* that comes first and last.
C13_Witness ==
    /\ pc = "csv"
    /\ raised = NoError
    /\ Len(entries) = 3
    /\ \A i \in 1..3 : DOMAIN entries[i] = FieldNames
    /\ Len(Left.bubbles) = 1
    /\ Len(Right.bubbles) = 1
    /\ StrLess(entries[2]["year"], entries[1]["year"])
    /\ entries[3] # entries[2]

--------------------------------------------------------------------------
\* The four open() calls of the processing of one plot plan, in the order
\* of C11: the table for writing, the table for reading, the template, the
\* text file for writing.
PlanOpens(plan) ==
    LET p == BubblePlotInit(plan)
    IN  <<[file |-> CsvName(p), mode |-> "w"], [file |-> CsvName(p), mode |-> "r"],
          [file |-> TemplateName, mode |-> "r"], [file |-> TexName(p), mode |-> "w"]>>

\* The open() calls of a list of plot plans processed one after the other.
RECURSIVE PlansOpens(_)
PlansOpens(plans) ==
    IF plans = <<>> THEN <<>> ELSE PlanOpens(Head(plans)) \o PlansOpens(Tail(plans))

IsPrefix(a, b) == Len(a) <= Len(b) /\ SubSeq(b, 1, Len(a)) = a

\* C11: in build_and_save_plots,
\*   - the open() calls made so far are the beginning of: for each plot plan
\*     in order, its table for writing, its table for reading, the template,
\*     its text file for writing;
\*   - a plot is being processed only when the four calls of every earlier
\*     plot are made, and at the return all calls of all plots are made;
\*   - when the Template Filler has read the table, the table file is the one
\*     the Table Serializer of this same plot wrote, complete: it holds the
\*     rows handed to the writer and the x indices read are those rows'.
C11_FileOrder ==
    /\ IsPrefix(opened, PlansOpens(plot_plans))
    /\ Len(opened) >= 4 * (plan_no - 1)
    /\ Len(opened) <= 4 * plan_no
    /\ pc = "done" => Len(opened) = 4 * Len(plot_plans)
    /\ pc = "tex" =>
         /\ CsvName(plot) \in DOMAIN files
         /\ files[CsvName(plot)].plan_no = plan_no
         /\ files[CsvName(plot)].content =
                CsvText(sorted_bubbles_data, Keys(y_mapping),
                        Keys(x_left_mapping) \o Keys(x_right_mapping))
         /\ x_indices = [i \in 1..Len(sorted_bubbles_data) |-> sorted_bubbles_data[i][2]]

\* Two different plot plans were processed to the end: eight open() calls,
\* two tables and two text files.
C11_Witness ==
    /\ pc = "done"
    /\ plan_no = 2
    /\ plot_plans[1] # plot_plans[2]
    /\ Len(opened) = 8
    /\ Cardinality(DOMAIN files) = 4
    /\ Len(x_indices) > 1

--------------------------------------------------------------------------
\* The plot plan being processed and the fields it needs in an entry.
Plan == plot_plans[plan_no]
Required == {conf.class_year, Plan.x_left, Plan.x_right, Plan.y}
Lacking(e) == ~(Required \subseteq DOMAIN e)

\* The error of an entry that lacks a field: the year first, then the
\* left x facet, then the y facet, then the right x facet.
ErrorOf(e) ==
    IF conf.class_year \notin DOMAIN e THEN MissingKey(conf.class_year)
    ELSE IF Plan.x_left \notin DOMAIN e THEN UnknownFacet(Plan.x_left, "x")
    ELSE IF Plan.y \notin DOMAIN e THEN UnknownFacet(Plan.y, "y")
    ELSE UnknownFacet(Plan.x_right, "x")

\* The aggregation of the current plot failed: a KeyError was raised
\* before any open() call of the plot.
AggregationFailed ==
    /\ pc = "raised"
    /\ raised.exception = "KeyError"
    /\ Len(opened) = 4 * (plan_no - 1)

\* C12 (states): the entries taken are the first ones of the input, in its
\* order; every entry taken before the last lacks nothing; the aggregation
\* has failed exactly when the last entry taken lacks a field, and then the
\* error is that entry's; the aggregation is over without failure only when
\* no entry of the input lacks a field.
C12_FirstLacking ==
    /\ IsPrefix(entries, input)
    /\ \A i \in 1..(Len(entries) - 1) : ~Lacking(entries[i])
    /\ AggregationFailed =>
         /\ entries # <<>>
         /\ Lacking(entries[Len(entries)])
         /\ raised = ErrorOf(entries[Len(entries)])
    /\ (entries # <<>> /\ Lacking(entries[Len(entries)])) => AggregationFailed
    /\ pc \notin {"aggregate", "raised"} =>
         /\ entries = input
         /\ \A i \in 1..Len(input) : ~Lacking(input[i])

\* C12 (one step): a step that takes an entry without the year field
\* raises the KeyError of the year field and changes neither side's mapping
\* nor the years; after an exception no step is taken.
C12_Step ==
    /\ pc = "raised" => UNCHANGED vars
    /\ (/\ Len(entries') = Len(entries) + 1
        /\ conf.class_year \notin DOMAIN entries'[Len(entries')])
       => /\ raised' = MissingKey(conf.class_year)
          /\ plot' = plot
          /\ years' = years

\* C12: compute_occurences_from takes the records in input order and fails
\* at the first record that lacks the year field or a facet field of the
\* plan, with that record's error, and takes no later record; a record
\* without the year field fails before the plot or the years are changed.
C12_FailsAtFirst == [](C12_FirstLacking) /\ [][C12_Step]_vars

\* In the second plot, the first record was aggregated and the second one,
\* which has the year and lacks a facet of the second plan only, raised.
C12_Witness ==
    /\ AggregationFailed
    /\ plan_no = 2
    /\ Len(entries) = 2
    /\ Len(Left.bubbles) = 1
    /\ conf.class_year \in DOMAIN entries[2]
    /\ raised = UnknownFacet("X_right", "x")

\* A record without the year field raised as the first record of the
\* input, a second record left untaken.
C12_WitnessYear ==
    /\ AggregationFailed
    /\ Len(entries) = 1
    /\ Len(input) = 2
    /\ raised = MissingKey("year")

--------------------------------------------------------------------------
\* The year scores of the current plot failed.
YearScoreFailed == pc = "raised" /\ raised = ZeroDivisionError

\* The files written while the current plot was processed.
WrittenByPlot == {n \in DOMAIN files : files[n].plan_no = plan_no}

\* C15 (states): when the aggregation or the year scores of a plot have
\* failed, no open() call of the plot was made, not for writing either, no
\* file was written by the plot, and each earlier plot has made its four
\* open() calls.
C15_NothingWritten ==
    (AggregationFailed \/ YearScoreFailed)
    => /\ opened = SubSeq(PlansOpens(plot_plans), 1, 4 * (plan_no - 1))
       /\ WrittenByPlot = {}

\* C15 (one step): compute_occurences_from and the step in which the year
\* scores fail open no file and leave every file as it is.
C15_Step ==
    (pc = "aggregate" \/ (pc = "csv" /\ raised' # NoError))
    => /\ opened' = opened
       /\ files' = files

\* C15: when a plot fails in the aggregation (a missing facet or year
\* field) or in the year scores (one year only), neither its table file nor
\* its text file has been opened for writing: no file of the failing plot is
\* created or half written, and the files of earlier plots are untouched.
C15_FailsBeforeOutput == [](C15_NothingWritten) /\ [][C15_Step]_vars

\* The second plot failed in the aggregation after the first plot wrote its
\* table and its text file.
C15_Witness ==
    /\ AggregationFailed
    /\ plan_no = 2
    /\ Len(opened) = 4
    /\ Cardinality(DOMAIN files) = 2
    /\ \A n \in DOMAIN files : files[n].plan_no = 1

\* The year scores failed on entries of one year.
C15_WitnessYearScore ==
    /\ YearScoreFailed
    /\ Len(entries) = 2
    /\ Cardinality(years) = 1
    /\ files = <<>>

--------------------------------------------------------------------------
\* The number of bubbles of both sides.
NBubbles == Len(Left.bubbles) + Len(Right.bubbles)

\* The table file of the plot is written.
TableWritten == CsvName(plot) \in DOMAIN files

\* C16: for every plot that a sequence of BubblePlot.update calls reaches,
\* the calls that raised and changed the left side only included,
\*   - the distinct y labels of both sides are at most as many as the
\*     bubbles of both sides, and so are the x labels of the left side plus
\*     those of the right side;
\*   - the table save_plot writes has one data row for each bubble, and no
\*     cell of its four numeric columns is the empty cell of the padding;
\*   - reading the table back raises no ValueError, and the x indices read
\*     are ints, one for each bubble, whose text is the cell read.
C16_NoPadding ==
    /\ Cardinality(YLabelsOf(Left) \cup YLabelsOf(Right)) <= NBubbles
    /\ Cardinality(XLabelsOf(Left)) + Cardinality(XLabelsOf(Right)) <= NBubbles
    /\ TableWritten =>
         LET rows == files[CsvName(plot)].content.rows
         IN  /\ Len(y_mapping) <= NBubbles
             /\ Len(x_left_mapping) + Len(x_right_mapping) <= NBubbles
             /\ Len(rows) = NBubbles
             /\ Len(csv_file) = NBubbles
             /\ \A i \in 1..Len(rows) : \A c \in 1..4 : rows[i][c] # <<>>
    /\ raised # ValueError
    /\ pc = "tex" =>
         LET rows == files[CsvName(plot)].content.rows
         IN  /\ Len(x_indices) = NBubbles
             /\ \A i \in 1..Len(x_indices) :
                  /\ x_indices[i] \in Int
                  /\ IntToStr(x_indices[i]) = rows[i][2]

\* A call that raised for the right x facet left a bubble on the left side
\* only; the table of the three bubbles was written and read back, with a
\* negative and a positive x index.
C16_Witness ==
    /\ pc = "tex"
    /\ Len(Left.bubbles) = 2
    /\ Len(Right.bubbles) = 1
    /\ Len(x_indices) = 3
    /\ \E i, j \in 1..3 : x_indices[i] < 0 /\ x_indices[j] > 0

====
